---- MODULE Spec2Model ----
(***************************************************************************)
(* Model of desktop-app/src-tauri/src/lib.rs: the `greet` command and the  *)
(* `run` entry point of the Iso Games desktop shell.                       *)
(*                                                                         *)
(* Text is modelled as a sequence of one-character strings, so that        *)
(* format! is computed character by character the way the formatting       *)
(* machinery does it, not assumed to be a concatenation.                   *)
(*                                                                         *)
(* The Tauri host (Builder::run, the IPC layer behind generate_handler!,   *)
(* the window registry) is the environment: it is modelled only as far as  *)
(* lib.rs calls into it, with nondeterminism wherever lib.rs does not      *)
(* decide the outcome (the build profile, the configured windows, whether  *)
(* the host starts, which invocations the web view sends).                 *)
(***************************************************************************)
EXTENDS Naturals, Sequences, FiniteSets

\* ------------------------------------------------------------------ bounds

\* Longest name drawn over Chars; the named inputs below are added to these.
MaxNameLen == 1

\* ------------------------------------------------------------------ state

VARIABLES
    build,        \* the build profile
    windows,      \* labels of the windows the host creates
    pc,           \* where run() is
    handler,      \* command names of the registered invoke handler
    plugins,      \* registered plugins
    setupResult,  \* what the setup hook returned, None before it ran
    devtools,     \* windows on which open_devtools was invoked, in order
    runResult,    \* what Builder::run returned, None while it has not
    panicMsg,     \* message of the panic that aborted the process, or None
    failure,      \* what the abort came from, or None
    lastCall,     \* the latest invocation and its response
    memo          \* some earlier invocation that reached greet (history)

vars == << build, windows, pc, handler, plugins, setupResult, devtools,
           runResult, panicMsg, failure, lastCall, memo >>

\* Everything but the record of invocations.
appState == << build, windows, pc, handler, plugins, setupResult, devtools,
               runResult, panicMsg, failure >>

\* ------------------------------------------------------------------- text

\* Characters the enumerated names are built from: whitespace (what a trim
\* would remove) and the two brace characters (what a second formatting pass
\* would reinterpret).
Chars == {" ", "{", "}"}

\* All sequences over S of length at most n.
BoundedSeq(S, n) == UNION {[1..k -> S] : k \in 0..n}

\* The format string literal of lib.rs line 7.
Template ==
    << "H", "e", "l", "l", "o", ",", " ", "{", "}", "!", " ",
       "W", "e", "l", "c", "o", "m", "e", " ", "t", "o", " ",
       "I", "s", "o", " ", "G", "a", "m", "e", "s", " ",
       "D", "e", "s", "k", "t", "o", "p", "." >>

\* "World", the example input of the specification.
World == << "W", "o", "r", "l", "d" >>

\* An input that is itself the format string: it contains "{}" and both
\* fixed parts of the greeting.
Echo == Template

\* "{}", a whole placeholder.
Braces == << "{", "}" >>

Names == BoundedSeq(Chars, MaxNameLen) \cup {World, Echo, Braces}

None == "None"

\* format_args! splits the literal at compile time into the literal pieces
\* around each "{}" placeholder; "{{" and "}}" are escapes for one brace.
\* ParsePieces(tpl, i, cur) is the list of pieces from position i on, cur
\* being the piece under construction.
RECURSIVE ParsePieces(_, _, _)
ParsePieces(tpl, i, cur) ==
    IF i > Len(tpl) THEN << cur >>
    ELSE IF i < Len(tpl) /\ tpl[i] = "{" /\ tpl[i + 1] = "}"
         THEN << cur >> \o ParsePieces(tpl, i + 2, << >>)
    ELSE IF i < Len(tpl) /\ tpl[i] \in {"{", "}"} /\ tpl[i + 1] = tpl[i]
         THEN ParsePieces(tpl, i + 2, Append(cur, tpl[i]))
    ELSE ParsePieces(tpl, i + 1, Append(cur, tpl[i]))

\* Mutant of DefaultSpec: the placeholder written "{:.1}", a precision of
\* one character.
PrecisionSpec == [width |-> << >>, precision |-> << 1 >>]

\* The formatting options of a bare "{}" placeholder: no width, no precision
\* (an option is << >> when absent and << n >> when given).
DefaultSpec == [width |-> << >>, precision |-> << >>]

\* fmt::Formatter::pad, which <str as Display>::fmt calls: with neither a
\* width nor a precision the text is written as it is; a precision truncates
\* it, a width pads it on the right with spaces.
RECURSIVE PadTo(_, _)
PadTo(s, w) == IF Len(s) >= w THEN s ELSE PadTo(Append(s, " "), w)

Pad(s, spec) ==
    LET cut == IF spec.precision = << >> \/ Len(s) <= spec.precision[1]
               THEN s ELSE SubSeq(s, 1, spec.precision[1])
    IN  IF spec.width = << >> THEN cut ELSE PadTo(cut, spec.width[1])

\* <str as Display>::fmt.
DisplayStr(s, spec) == Pad(s, spec)

\* fmt::write into a String: piece, argument, piece, argument, ..., piece.
\* What an argument writes is appended, never scanned again.
RECURSIVE FmtWrite(_, _, _, _)
FmtWrite(pieces, args, k, out) ==
    IF k > Len(pieces) THEN out
    ELSE LET lit == out \o pieces[k]
         IN  IF k <= Len(args)
             THEN FmtWrite(pieces, args, k + 1, lit \o DisplayStr(args[k], DefaultSpec))
             ELSE FmtWrite(pieces, args, k + 1, lit)

\* The pieces of the format string, computed once as the macro does at
\* compile time.
TemplatePieces == ParsePieces(Template, 1, << >>)

\* format!("Hello, {}! Welcome to Iso Games Desktop.", args...)
Format(args) == FmtWrite(TemplatePieces, args, 1, << >>)

\* ------------------------------------------------------------------ greet

\* s without its leading and trailing spaces (str::trim).
RECURSIVE Trim(_)
Trim(s) ==
    IF s = << >> THEN s
    ELSE IF Head(s) = " " THEN Trim(Tail(s))
    ELSE IF s[Len(s)] = " " THEN Trim(SubSeq(s, 1, Len(s) - 1))
    ELSE s

\* Mutant of Greet: the name is trimmed before it is formatted.
GreetTrimmed(name) ==
    [kind |-> "text", value |-> Format(<< Trim(name) >>), opened |-> << >>]

\* Mutant of Greet: an empty name is refused with an error.
GreetRejectsEmpty(name) ==
    IF name = << >>
    THEN [kind |-> "error", value |-> << >>, opened |-> << >>]
    ELSE [kind |-> "text", value |-> Format(<< name >>), opened |-> << >>]

\* Mutant of Greet: the greeting is kept in a cache that is never keyed by
\* the name, so a later call returns the text of the one before it.
GreetCached(name) ==
    IF lastCall.servedBy = "greet"
    THEN [kind |-> "text", value |-> lastCall.resp.value, opened |-> << >>]
    ELSE [kind |-> "text", value |-> Format(<< name >>), opened |-> << >>]

\* fn greet(name: &str) -> String: the outcome of one call. It always
\* returns a String (kind "text"); `opened` lists the windows on which the
\* call invoked open_devtools, which is none: greet receives only the name,
\* no handle on the application.
Greet(name) ==
    [kind |-> "text", value |-> Format(<< name >>), opened |-> << >>]

\* -------------------------------------------------------------- the host

\* cfg(debug_assertions): the build profile, fixed at compile time.
Builds == {"debug", "release"}

\* Labels of the windows the host's configuration may create.
WindowLabels == {"main", "splash"}

\* Command names the web view may send: the registered one, one that no
\* handler knows, and one addressed to the shell plugin.
PluginCmds == {"plugin:shell|open"}
Cmds == {"greet", "farewell"} \cup PluginCmds

\* The argument object of an invocation either carries a text `name`,
\* << name >>, or lacks it, << >>.
Missing == << >>
Args == {<< n >> : n \in Names} \cup {Missing}

NoResp == [kind |-> "none", value |-> << >>, opened |-> << >>]
Rejected == [kind |-> "rejected", value |-> << >>, opened |-> << >>]
PluginResp == [kind |-> "plugin", value |-> << >>, opened |-> << >>]
NoCall == [cmd |-> None, arg |-> Missing, servedBy |-> None, resp |-> NoResp]

\* .expect("error while running tauri application")
ExpectMsg == "error while running tauri application"
\* The host's own panic when a setup hook returns Err.
SetupPanicMsg == "Failed to setup app"
\* A panic that unwinds out of a command.
CommandPanicMsg == "panicked in command"

Init ==
    /\ build \in Builds
    /\ windows \in SUBSET WindowLabels
    /\ pc = "start"
    /\ handler = {}
    /\ plugins = {}
    /\ setupResult = None
    /\ devtools = << >>
    /\ runResult = None
    /\ panicMsg = None
    /\ failure = None
    /\ lastCall = NoCall
    /\ memo = NoCall

\* Mutant of GenerateHandler: greet is served under a second name too.
GenerateHandlerTwoNames == {"greet", "farewell"}

\* tauri::generate_handler![greet]: the command names the handler serves.
GenerateHandler == {"greet"}

\* Lines 12-15 and 25: the builder is configured (shell plugin, invoke
\* handler, setup hook) and Builder::run is entered.
Configure ==
    /\ pc = "start"
    /\ plugins' = {"shell"}
    /\ handler' = GenerateHandler
    /\ pc' = "starting"
    /\ UNCHANGED << build, windows, setupResult, devtools, runResult,
                    panicMsg, failure, lastCall, memo >>

\* The host fails to start: Builder::run returns Err.
HostStartFail ==
    /\ pc = "starting"
    /\ runResult' = "Err"
    /\ pc' = "expect"
    /\ UNCHANGED << build, windows, handler, plugins, setupResult, devtools,
                    panicMsg, failure, lastCall, memo >>

\* The host starts: its windows exist and the event loop is ready.
HostReady ==
    /\ pc = "starting"
    /\ pc' = "ready"
    /\ UNCHANGED << build, windows, handler, plugins, setupResult, devtools,
                    runResult, panicMsg, failure, lastCall, memo >>

\* app.get_webview_window(label): Some(window) or None.
GetWebviewWindow(label) == IF label \in windows THEN label ELSE None

\* Mutant of SetupClosure: the cfg(debug_assertions) attribute is missing.
SetupClosureNoCfg ==
    LET window == GetWebviewWindow("main")
    IN  [opened |-> IF window # None THEN << window >> ELSE << >>,
         result |-> "Ok"]

\* Mutant of SetupClosure: the inspector is opened on every window.
SetupClosureEveryWindow ==
    [opened |-> IF build # "debug" THEN << >>
                ELSE IF windows = WindowLabels THEN << "main", "splash" >>
                ELSE IF windows = {} THEN << >>
                ELSE << CHOOSE w \in windows : TRUE >>,
     result |-> "Ok"]

\* Mutant of SetupClosure: a missing main window is an error
\* (ok_or(...)? in place of if let).
SetupClosureRequiresMain ==
    LET window == GetWebviewWindow("main")
    IN  [opened |-> IF build = "debug" /\ window # None
                    THEN << window >> ELSE << >>,
         result |-> IF build = "debug" /\ window = None THEN "Err" ELSE "Ok"]

\* The setup closure, lines 15-24: which windows it opens the inspector on
\* and what it returns.
SetupClosure ==
    LET window == GetWebviewWindow("main")
    IN  [opened |-> IF build = "debug" /\ window # None
                    THEN << window >> ELSE << >>,
         result |-> "Ok"]

\* The host calls the setup hook, once (it is an FnOnce the host consumes),
\* and panics if it returned Err.
Setup ==
    /\ pc = "ready"
    /\ devtools' = devtools \o SetupClosure.opened
    /\ setupResult' = SetupClosure.result
    /\ IF SetupClosure.result = "Ok"
       THEN pc' = "eventloop" /\ UNCHANGED << panicMsg, failure >>
       ELSE pc' = "aborted" /\ panicMsg' = SetupPanicMsg /\ failure' = "setup"
    /\ UNCHANGED << build, windows, handler, plugins, runResult, lastCall, memo >>

\* The invoke handler built by generate_handler!, for a command name it
\* serves: the arguments are decoded and the command function is called.
InvokeHandler(cmd, arg) ==
    IF arg = Missing
    THEN [servedBy |-> None, resp |-> Rejected]
    ELSE [servedBy |-> "greet", resp |-> Greet(arg[1])]

\* How the host routes an invocation: plugin commands to the plugin, the
\* rest to the invoke handler, which serves the names it was generated for.
Dispatch(cmd, arg) ==
    IF cmd \in PluginCmds
    THEN [servedBy |-> IF "shell" \in plugins THEN "plugin" ELSE None,
          resp |-> IF "shell" \in plugins THEN PluginResp ELSE Rejected]
    ELSE IF cmd \in handler
    THEN InvokeHandler(cmd, arg)
    ELSE [servedBy |-> None, resp |-> Rejected]

\* The web view invokes a command. The host places no order between the
\* setup hook and the first invocation that lib.rs could rely on, so both
\* orders are allowed. memo either keeps its sample or takes the previous
\* invocation when that one reached greet.
Invoke(cmd, arg) ==
    /\ pc \in {"ready", "eventloop"}
    /\ LET d == Dispatch(cmd, arg)
       IN  /\ lastCall' = [cmd |-> cmd, arg |-> arg,
                           servedBy |-> d.servedBy, resp |-> d.resp]
           /\ devtools' = devtools \o d.resp.opened
           /\ IF d.resp.kind = "panic"
              THEN pc' = "aborted" /\ panicMsg' = CommandPanicMsg
                   /\ failure' = "command"
              ELSE UNCHANGED << pc, panicMsg, failure >>
    /\ \E keep \in BOOLEAN :
           memo' = IF keep \/ lastCall.servedBy # "greet" THEN memo ELSE lastCall
    /\ UNCHANGED << build, windows, handler, plugins, setupResult, runResult >>

\* The event loop ends: Builder::run returns Ok(()).
Exit ==
    /\ pc = "eventloop"
    /\ runResult' = "Ok"
    /\ pc' = "expect"
    /\ UNCHANGED << build, windows, handler, plugins, setupResult, devtools,
                    panicMsg, failure, lastCall, memo >>

\* Mutant of Expect: the result of Builder::run is dropped (.ok()).
ExpectIgnoresError ==
    /\ pc = "expect"
    /\ pc' = "returned"
    /\ UNCHANGED << build, windows, handler, plugins, setupResult, devtools,
                    runResult, panicMsg, failure, lastCall, memo >>

\* Line 26, .expect(...): panics with the fixed message on Err.
Expect ==
    /\ pc = "expect"
    /\ IF runResult = "Err"
       THEN pc' = "aborted" /\ panicMsg' = ExpectMsg /\ failure' = "host"
       ELSE pc' = "returned" /\ UNCHANGED << panicMsg, failure >>
    /\ UNCHANGED << build, windows, handler, plugins, setupResult, devtools,
                    runResult, lastCall, memo >>

Next ==
    \/ Configure
    \/ HostStartFail
    \/ HostReady
    \/ Setup
    \/ \E cmd \in Cmds, arg \in Args : Invoke(cmd, arg)
    \/ Exit
    \/ Expect

Spec == Init /\ [][Next]_vars

\* ----------------------------------------------------------------- claims

\* The fixed text before and after the name, as the specification words it.
GreetingPrefix == << "H", "e", "l", "l", "o", ",", " " >>
GreetingSuffix ==
    << "!", " ", "W", "e", "l", "c", "o", "m", "e", " ", "t", "o", " ",
       "I", "s", "o", " ", "G", "a", "m", "e", "s", " ",
       "D", "e", "s", "k", "t", "o", "p", "." >>

\* "Hello, ! Welcome to Iso Games Desktop."
HelloEmpty ==
    << "H", "e", "l", "l", "o", ",", " ", "!", " ",
       "W", "e", "l", "c", "o", "m", "e", " ", "t", "o", " ",
       "I", "s", "o", " ", "G", "a", "m", "e", "s", " ",
       "D", "e", "s", "k", "t", "o", "p", "." >>

\* "Hello, World! Welcome to Iso Games Desktop."
HelloWorld ==
    << "H", "e", "l", "l", "o", ",", " ", "W", "o", "r", "l", "d", "!", " ",
       "W", "e", "l", "c", "o", "m", "e", " ", "t", "o", " ",
       "I", "s", "o", " ", "G", "a", "m", "e", "s", " ",
       "D", "e", "s", "k", "t", "o", "p", "." >>

\* Number of characters of the format string outside its placeholder.
FixedLen == 38

\* call is an invocation that reached greet.
Reached(call) == call.servedBy = "greet"

\* call reached greet and got the concatenation prefix + name + suffix.
IsConcatenation(call) ==
    call.resp.value = GreetingPrefix \o call.arg[1] \o GreetingSuffix

\* C1: every invocation that reaches greet returns exactly
\* "Hello, " + name + "! Welcome to Iso Games Desktop.", the name verbatim:
\* for the empty name "Hello, ! Welcome to Iso Games Desktop.", for "World"
\* "Hello, World! Welcome to Iso Games Desktop.", and likewise for names that
\* contain "{}" or the greeting's own text.
C1_GreetIsConcatenation ==
    \A call \in {lastCall, memo} :
        Reached(call) =>
            /\ call.resp.kind = "text"
            /\ IsConcatenation(call)
            /\ call.arg[1] = << >> => call.resp.value = HelloEmpty
            /\ call.arg[1] = World => call.resp.value = HelloWorld

\* C1's case: greet answered the empty name and then a name that is the
\* format string itself.
C1_Witness ==
    /\ Reached(memo) /\ memo.arg = << << >> >>
    /\ memo.resp.value = HelloEmpty
    /\ Reached(lastCall) /\ lastCall.arg = << Echo >>
    /\ lastCall.resp.value = GreetingPrefix \o Template \o GreetingSuffix

\* Some step of the web view invoking a command.
IsInvokeStep == \E cmd \in Cmds, arg \in Args : Invoke(cmd, arg)

\* C2: greet is idempotent and free of side effects: any two invocations
\* that reach greet with the same name, however many invocations and
\* whichever part of the startup lie between them, get the same result, and
\* a step that invokes a command leaves the application state (the inspector
\* included) as it was.
C2_GreetIdempotentNoSideEffect ==
    [][ /\ (Reached(lastCall') /\ Reached(memo') /\ lastCall'.arg = memo'.arg
              => lastCall'.resp = memo'.resp)
        /\ (IsInvokeStep => UNCHANGED appState) ]_vars

\* C2's case: the same name was answered twice with the same text, in a run
\* whose setup hook opened the inspector.
C2_Witness ==
    /\ Reached(memo) /\ Reached(lastCall)
    /\ memo.arg = << World >> /\ lastCall.arg = << World >>
    /\ memo.resp = lastCall.resp
    /\ pc = "eventloop" /\ devtools = << "main" >>

\* C3: in a release build open_devtools is invoked in no reachable state,
\* with or without a window labelled "main".
C3_ReleaseNeverOpensDevtools == build = "release" => devtools = << >>

\* C3's case: a release build with a main window whose setup hook has run
\* and which has served greet.
C3_Witness ==
    /\ build = "release" /\ "main" \in windows
    /\ setupResult = "Ok" /\ pc = "eventloop" /\ Reached(lastCall)
    /\ devtools = << >>

\* C4: open_devtools is invoked at most once per process start, and only by
\* the step that runs the setup hook: no later step, and no invocation of a
\* command, invokes it again.
C4_DevtoolsAtMostOnce ==
    [][ /\ Len(devtools') <= 1
        /\ (devtools' # devtools => pc = "ready" /\ setupResult = None
                                     /\ setupResult' # None) ]_vars

\* C4's case: the inspector was opened once by the setup hook and greet was
\* invoked twice afterwards.
C4_Witness ==
    /\ Len(devtools) = 1 /\ setupResult = "Ok"
    /\ Reached(memo) /\ Reached(lastCall) /\ pc = "returned"

\* The setup hook has run.
SetupRan == setupResult # None

\* C5: in a debug build whose setup hook has run, without a "main" window
\* open_devtools was not invoked, the hook returned Ok and the application
\* went on (it did not abort); with a "main" window it was invoked on that
\* window.
C5_DebugSkipsAbsentMainWindow ==
    build = "debug" /\ SetupRan =>
        /\ "main" \notin windows =>
              /\ devtools = << >>
              /\ setupResult = "Ok"
              /\ pc \in {"eventloop", "expect", "returned"}
              /\ failure = None
        /\ "main" \in windows => devtools = << "main" >>

\* C5's case: a debug build with a window, none labelled "main", past its
\* setup hook and serving invocations.
C5_Witness ==
    /\ build = "debug" /\ windows = {"splash"}
    /\ setupResult = "Ok" /\ devtools = << >>
    /\ pc = "eventloop" /\ Reached(lastCall)

\* run() has ended, one way or the other.
Ended == pc \in {"aborted", "returned"}

\* C6: if Builder::run returned an error, run() ends in an abort with the
\* message "error while running tauri application"; and an abort comes from
\* nothing else: not from the setup hook, which returns Ok in every build
\* and for every set of windows, nor from an invocation of greet.
C6_AbortOnlyOnHostFailure ==
    /\ runResult = "Err" /\ Ended => pc = "aborted"
    /\ pc = "aborted" =>
          /\ runResult = "Err"
          /\ failure = "host"
          /\ panicMsg = ExpectMsg
    /\ SetupRan => setupResult = "Ok"
    /\ pc # "aborted" => panicMsg = None /\ failure = None

\* C6's case: the host failed to start and run() aborted with the message.
C6_Witness ==
    /\ pc = "aborted" /\ runResult = "Err"
    /\ panicMsg = ExpectMsg /\ failure = "host"
    /\ setupResult = None

\* C7: an invocation that reaches greet returns a text, for every name:
\* never an error value, and never a panic that aborts the process.
C7_GreetInfallible ==
    /\ \A call \in {lastCall, memo} : Reached(call) => call.resp.kind = "text"
    /\ failure # "command"

\* C7's case: greet was reached with the empty name and with the longest
\* one, and run() returned without a panic.
C7_Witness ==
    /\ Reached(memo) /\ memo.arg = << << >> >> /\ memo.resp.kind = "text"
    /\ Reached(lastCall) /\ lastCall.arg = << Echo >>
    /\ lastCall.resp.kind = "text"
    /\ pc = "returned"

\* C8: the handler serves exactly the one name "greet": an invocation of
\* "greet" with a text argument is routed to greet and answered with a text,
\* an invocation under any other name never reaches greet, gets no text and
\* changes no application state.
C8_OnlyGreetIsServed ==
    [][ /\ handler' \in {{}, {"greet"}}
        /\ pc' # "start" => handler' = {"greet"}
        /\ lastCall'.cmd = "greet" /\ lastCall'.arg # Missing
              => Reached(lastCall') /\ lastCall'.resp.kind = "text"
        /\ lastCall'.cmd \notin {"greet", None}
              => ~Reached(lastCall') /\ lastCall'.resp.kind # "text"
        /\ (\E cmd \in Cmds \ {"greet"}, arg \in Args : Invoke(cmd, arg))
              => UNCHANGED appState ]_vars

\* C8's case: greet was served, and after it an invocation under another
\* name with the same kind of argument was turned away.
C8_Witness ==
    /\ Reached(memo) /\ memo.cmd = "greet"
    /\ lastCall.cmd = "farewell" /\ lastCall.arg = << World >>
    /\ lastCall.servedBy = None /\ lastCall.resp = Rejected

\* s without the prefix p, as << rest >>, or << >> when s does not start
\* with p (str::strip_prefix).
StripPrefix(s, p) ==
    IF Len(s) >= Len(p) /\ SubSeq(s, 1, Len(p)) = p
    THEN << SubSeq(s, Len(p) + 1, Len(s)) >> ELSE << >>

\* s without the suffix p, likewise (str::strip_suffix).
StripSuffix(s, p) ==
    IF Len(s) >= Len(p) /\ SubSeq(s, Len(s) - Len(p) + 1, Len(s)) = p
    THEN << SubSeq(s, 1, Len(s) - Len(p)) >> ELSE << >>

\* The name recovered from a greeting, as << name >>, or << >>.
Recover(text) ==
    LET a == StripPrefix(text, GreetingPrefix)
    IN  IF a = << >> THEN << >> ELSE StripSuffix(a[1], GreetingSuffix)

\* C9: greet is injective and its input can be recovered: two invocations
\* that got the same text had the same name, stripping "Hello, " and
\* "! Welcome to Iso Games Desktop." from a result gives the name back, and
\* a result is as long as the name plus the fixed text.
C9_GreetInjective ==
    /\ Reached(lastCall) /\ Reached(memo)
       /\ lastCall.resp.value = memo.resp.value => lastCall.arg = memo.arg
    /\ \A call \in {lastCall, memo} :
          Reached(call) =>
             /\ Recover(call.resp.value) = call.arg
             /\ Len(call.resp.value) = Len(call.arg[1]) + FixedLen

\* C9's case: two names, one a prefix of the other once formatted ("{" and
\* "{}"), got different texts.
C9_Witness ==
    /\ Reached(memo) /\ memo.arg = << << "{" >> >>
    /\ Reached(lastCall) /\ lastCall.arg = << Braces >>
    /\ lastCall.resp.value # memo.resp.value
    /\ Recover(lastCall.resp.value) = << Braces >>

====
